---------------------------- MODULE Spec2Model ----------------------------
(***************************************************************************)
(* A model of file_renamer.py: the recursive find/replace renamer.         *)
(*                                                                         *)
(* Strings are sequences of one-character strings, a path is a string     *)
(* with "/" as its separator (posixpath), and the filesystem is a          *)
(* function from the normalised paths of its entries to their kind: "dir", *)
(* "file", or "link" for a symbolic link whose target is missing.          *)
(***************************************************************************)
EXTENDS Integers, Sequences, FiniteSets, TLC

(***************************************************************************)
(* Bounds of the model.                                                    *)
(***************************************************************************)
\* the largest number of entries below the root in the tree of a run
MaxEntries == 3
\* the largest number of entries below the root in a tree that is only scanned
MaxScanEntries == 3
\* the number of answers outside the accepted ones one prompt gets in a row
MaxReprompts == 1

\* the longest name ci_replace is applied to on its own
MaxTextLen == 3

\* the longest find term ci_replace is given on its own
MaxFindLen == 2

\* the longest replacement ci_replace is given on its own
MaxReplLen == 1

(***************************************************************************)
(* Strings.                                                                *)
(***************************************************************************)
None == << >>

SEP == "/"

\* str.lower() on the characters of the model
LowerChar(c) ==
    IF c = "A" THEN "a" ELSE IF c = "B" THEN "b" ELSE IF c = "T" THEN "t" ELSE c

Lower(s) == [i \in 1..Len(s) |-> LowerChar(s[i])]

\* s[i:] for a 1-based i
Drop(s, i) == SubSeq(s, i, Len(s))

\* str.startswith
StartsWith(s, t) == Len(t) <= Len(s) /\ SubSeq(s, 1, Len(t)) = t

\* the largest index of character c in s, 0 when there is none (str.rfind + 1)
RFind(s, c) ==
    LET hits == {i \in 1..Len(s) : s[i] = c}
    IN  IF hits = {} THEN 0 ELSE CHOOSE i \in hits : \A j \in hits : j <= i

DigitChars == <<"0", "1", "2", "3", "4", "5", "6", "7", "8", "9">>

\* str(i) for i >= 0
RECURSIVE IntToStr(_)
IntToStr(i) ==
    IF i < 10 THEN <<DigitChars[i + 1]>>
    ELSE IntToStr(i \div 10) \o <<DigitChars[(i % 10) + 1]>>

\* whether pat matches text at position i: character by character, folding
\* case when ci (re.IGNORECASE, str.lower), and with "." matching any
\* character when pat is a regular expression (rx)
MatchAt(pat, text, i, ci, rx) ==
    /\ i + Len(pat) - 1 <= Len(text)
    /\ \A k \in 1..Len(pat) :
          \/ rx /\ pat[k] = "."
          \/ IF ci THEN LowerChar(pat[k]) = LowerChar(text[i + k - 1])
                   ELSE pat[k] = text[i + k - 1]

\* re.search: pat matches somewhere in text
Search(pat, text, ci, rx) == \E i \in 1..(Len(text) + 1) : MatchAt(pat, text, i, ci, rx)

\* Pattern.sub / str.replace: text with every non-overlapping match of pat,
\* found left to right from position i on, replaced by repl.  An empty pat
\* matches before every character and at the end of the text.
RECURSIVE SubFrom(_, _, _, _, _, _)
SubFrom(text, pat, repl, i, ci, rx) ==
    IF i > Len(text)
    THEN IF pat = << >> THEN repl ELSE << >>
    ELSE IF MatchAt(pat, text, i, ci, rx)
         THEN IF pat = << >>
              THEN repl \o <<text[i]>> \o SubFrom(text, pat, repl, i + 1, ci, rx)
              ELSE repl \o SubFrom(text, pat, repl, i + Len(pat), ci, rx)
         ELSE <<text[i]>> \o SubFrom(text, pat, repl, i + 1, ci, rx)

(***************************************************************************)
(* posixpath.                                                              *)
(***************************************************************************)
\* the components of a path: the text between separators, without the empty
\* ones and the "." ones
RECURSIVE Components(_)
Components(p) ==
    IF p = << >> THEN << >>
    ELSE LET seps == {i \in 1..Len(p) : p[i] = SEP}
             k == IF seps = {} THEN Len(p) + 1
                  ELSE CHOOSE i \in seps : \A j \in seps : i <= j
             first == SubSeq(p, 1, k - 1)
         IN  (IF first = << >> \/ first = <<".">> THEN << >> ELSE <<first>>)
             \o Components(Drop(p, k + 1))

RECURSIVE JoinComponents(_)
JoinComponents(cs) ==
    IF cs = << >> THEN << >> ELSE <<SEP>> \o Head(cs) \o JoinComponents(Tail(cs))

NormOf(cs) == IF cs = << >> THEN <<SEP>> ELSE JoinComponents(cs)

\* os.path.abspath / the kernel's view of an absolute path
Norm(p) == NormOf(Components(p))

\* os.path.join(a, b)
Join(a, b) ==
    IF StartsWith(b, <<SEP>>) THEN b
    ELSE IF a = << >> \/ a[Len(a)] = SEP THEN a \o b
    ELSE a \o <<SEP>> \o b

\* str.rstrip('/')
RECURSIVE RStripSep(_)
RStripSep(s) ==
    IF s # << >> /\ s[Len(s)] = SEP THEN RStripSep(SubSeq(s, 1, Len(s) - 1)) ELSE s

\* head.rstrip('/') unless head is made of separators only
StripHead(head, stripped) == IF stripped = << >> THEN head ELSE stripped

\* os.path.split(p) with i = p.rfind('/') + 1
SplitAt(p, i) ==
    [head |-> StripHead(SubSeq(p, 1, i), RStripSep(SubSeq(p, 1, i))),
     tail |-> Drop(p, i + 1)]

\* os.path.split(p): (head, tail)
Split(p) == SplitAt(p, RFind(p, SEP))

Dirname(p) == Split(p).head

Basename(p) == Split(p).tail

\* the dots that lead the file name are not an extension separator
SplitextAt(p, sepIndex, dotIndex) ==
    IF dotIndex > sepIndex
       /\ \E j \in (sepIndex + 1)..(dotIndex - 1) : p[j] # "."
    THEN [root |-> SubSeq(p, 1, dotIndex - 1), ext |-> Drop(p, dotIndex)]
    ELSE [root |-> p, ext |-> << >>]

\* os.path.splitext(p): (root, ext)
Splitext(p) == SplitextAt(p, RFind(p, SEP), RFind(p, "."))

\* whether p is written with a trailing separator or a trailing "."
\* component, which resolve only in a directory
TrailingDir(p) ==
    \/ p[Len(p)] = SEP
    \/ p = <<".">>
    \/ Len(p) >= 2 /\ p[Len(p)] = "." /\ p[Len(p) - 1] = SEP

\* whether p, whose normal form is n, resolves in filesystem f: a dangling
\* symbolic link does not (os.path.exists follows links)
ExistsAs(f, p, n) ==
    /\ p # << >>
    /\ n \in DOMAIN f
    /\ f[n] # "link"
    /\ TrailingDir(p) => f[n] = "dir"

\* os.path.exists(p) in filesystem f
Exists(f, p) == ExistsAs(f, p, Norm(p))

\* os.path.lexists: whether p, whose normal form is n, names an entry of f
LexistsAs(f, p, n) ==
    /\ p # << >>
    /\ n \in DOMAIN f
    /\ TrailingDir(p) => f[n] = "dir"

IsDirAs(f, p, n) == p # << >> /\ n \in DOMAIN f /\ f[n] = "dir"

\* os.path.isdir(p) in filesystem f
IsDir(f, p) == IsDirAs(f, p, Norm(p))

(***************************************************************************)
(* The file names of the model.  A directory lists its entries in the      *)
(* order of ScanOrder (os.scandir gives no order of its own).              *)
(***************************************************************************)
Root == <<"/", "r">>

\* a working directory outside the scanned tree
Outside == <<"/", "w">>

\* renamed.<date>.txt and renamed.<date>.jsonl, with "D" for the date
TextLogName == <<"r", "e", "n", "a", "m", "e", "d", ".", "D", ".", "t", "x", "t">>

JsonLogName == <<"r", "e", "n", "a", "m", "e", "d", ".", "D", ".", "j", "s", "o", "n", "l">>

BAK == <<".", "b", "a", "k">>

\* the entries a tree is drawn from
Universe ==
    << [path |-> Root \o <<"/", "a", ".", "t">>, kind |-> "file"],
       [path |-> Root \o <<"/", "A", ".", "t">>, kind |-> "file"],
       [path |-> Root \o <<"/", "b", ".", "t">>, kind |-> "file"],
       [path |-> Root \o <<"/", "b", "(", "1", ")", ".", "t">>, kind |-> "file"],
       [path |-> Root \o <<"/", "a", ".", "p">>, kind |-> "file"],
       [path |-> Root \o <<"/", "a">>, kind |-> "dir"],
       [path |-> Root \o <<"/", "a", "/", "a", ".", "t">>, kind |-> "file"],
       [path |-> Root \o <<"/", "a", ".", "t", ".", "b", "a", "k">>, kind |-> "file"],
       [path |-> Root \o <<"/", "c", ".", "T">>, kind |-> "file"],
       [path |-> Root \o <<"/", "a", "(", "1", ")", ".", "t">>, kind |-> "link"] >>

ScanOrder ==
    [i \in 1..Len(Universe) |-> Universe[i].path]
    \o << Join(Root, TextLogName), Join(Root, JsonLogName),
          Join(Outside, TextLogName), Join(Outside, JsonLogName) >>

(***************************************************************************)
(* Matcher.                                                                *)
(***************************************************************************)
name_matches(name, term, case_sensitive) ==
    IF term = << >> THEN FALSE
    ELSE Search(term, name, ~case_sensitive, FALSE)

\* In case-insensitive mode replace_with is the template of Pattern.sub; the
\* replacement texts of the model hold no backslash, so it is taken literally.
ci_replace(text, find_term, replace_with, case_sensitive) ==
    IF find_term = << >> THEN text
    ELSE SubFrom(text, find_term, replace_with, 1, ~case_sensitive, FALSE)

\* The regular expressions of the model: literal characters, "." and groups.
\* re.compile raises re.error on an unbalanced parenthesis.
RECURSIVE ParenDepthOk(_, _)
ParenDepthOk(pattern, depth) ==
    IF pattern = << >> THEN depth = 0
    ELSE IF Head(pattern) = "(" THEN ParenDepthOk(Tail(pattern), depth + 1)
    ELSE IF Head(pattern) = ")" THEN depth > 0 /\ ParenDepthOk(Tail(pattern), depth - 1)
    ELSE ParenDepthOk(Tail(pattern), depth)

re_compiles(pattern) == ParenDepthOk(pattern, 0)

\* what a compiled pattern matches: its characters without the group marks
re_body(pattern) == SelectSeq(pattern, LAMBDA c : c # "(" /\ c # ")")

re_search(pattern, name, case_sensitive) ==
    Search(re_body(pattern), name, ~case_sensitive, TRUE)

\* (raised, matched, new_name): raised stands for the ValueError
regex_replace_name(name, pattern, repl, case_sensitive) ==
    IF ~re_compiles(pattern)
    THEN [raised |-> TRUE, matched |-> FALSE, new_name |-> name]
    ELSE IF ~re_search(pattern, name, case_sensitive)
    THEN [raised |-> FALSE, matched |-> FALSE, new_name |-> name]
    ELSE [raised |-> FALSE, matched |-> TRUE,
          new_name |-> SubFrom(name, re_body(pattern), repl, 1, ~case_sensitive, TRUE)]

(***************************************************************************)
(* Collision Resolver.                                                     *)
(***************************************************************************)
Disambiguator(i) == <<"(">> \o IntToStr(i) \o <<")">>

\* a probe that steps over every other disambiguator
RECURSIVE ProbeFromSkipping(_, _, _, _, _)
ProbeFromSkipping(f, dirn, root, ext, i) ==
    LET candidate == Join(dirn, root \o Disambiguator(i) \o ext)
    IN  IF ~Exists(f, candidate) THEN candidate
        ELSE ProbeFromSkipping(f, dirn, root, ext, i + 2)

RECURSIVE ProbeFrom(_, _, _, _, _)
ProbeFrom(f, dirn, root, ext, i) ==
    LET candidate == Join(dirn, root \o Disambiguator(i) \o ext)
    IN  IF ~Exists(f, candidate) THEN candidate
        ELSE ProbeFrom(f, dirn, root, ext, i + 1)

ProbeExt(f, dirn, stem) == ProbeFrom(f, dirn, stem.root, stem.ext, 1)

ProbeSplit(f, parts) == ProbeExt(f, parts.head, Splitext(parts.tail))

next_nonconflicting_path(f, dst) ==
    IF ~Exists(f, dst) THEN dst ELSE ProbeSplit(f, Split(dst))

RECURSIVE BackupProbeFrom(_, _, _)
BackupProbeFrom(f, src, i) ==
    LET trial == src \o BAK \o Disambiguator(i)
    IN  IF ~Exists(f, trial) THEN trial ELSE BackupProbeFrom(f, src, i + 1)

backup_nonconflicting_path(f, src) ==
    IF ~Exists(f, src \o BAK) THEN src \o BAK ELSE BackupProbeFrom(f, src, 1)

(***************************************************************************)
(* Tree Walker.                                                            *)
(***************************************************************************)
\* os.scandir(top): the paths of the entries of the directory whose normal
\* form is top, in listing order
ListDir(f, top) ==
    SelectSeq(ScanOrder, LAMBDA p : p \in DOMAIN f /\ p # top /\ Dirname(p) = top)

RECURSIVE Flatten(_)
Flatten(seqs) == IF seqs = << >> THEN << >> ELSE Head(seqs) \o Flatten(Tail(seqs))

\* one (path, is_dir) target per listed entry, named as os.path.join names it
Targets(top, listed, is_dir) ==
    [i \in 1..Len(listed) |-> [path |-> Join(top, Basename(listed[i])), is_dir |-> is_dir]]

\* os.walk(top) top-down, yielding iter_targets' (path, is_dir) pairs
RECURSIVE iter_targets(_, _, _)
WalkListed(f, top, include_dirs, listed) ==
    LET ds == Targets(top, SelectSeq(listed, LAMBDA p : f[p] = "dir"), TRUE)
    IN  (IF include_dirs THEN ds ELSE << >>)
        \o Targets(top, SelectSeq(listed, LAMBDA p : f[p] # "dir"), FALSE)
        \o Flatten([i \in 1..Len(ds) |-> iter_targets(f, ds[i].path, include_dirs)])

iter_targets(f, top, include_dirs) ==
    IF ~IsDir(f, top) THEN << >>
    ELSE WalkListed(f, top, include_dirs, ListDir(f, Norm(top)))

\* an extension filter that directories have to pass as well
eligible_filtering_dirs(path, is_dir, exts) ==
    IF exts = {} THEN TRUE
    ELSE Lower(Splitext(path).ext) \in exts

eligible(path, is_dir, exts) ==
    IF is_dir THEN TRUE
    ELSE IF exts = {} THEN TRUE
    ELSE Lower(Splitext(path).ext) \in exts

(***************************************************************************)
(* Planner.                                                                *)
(***************************************************************************)
\* lines 343-363 for a target whose name matched and became new_name
plan_renamed(f, t, dirn, name, new_name) ==
    IF new_name = name THEN << >>
    ELSE << [src |-> t.path, dst |-> next_nonconflicting_path(f, Join(dirn, new_name)),
             is_dir |-> t.is_dir] >>

plan_regex(f, t, dirn, name, rr) ==
    IF rr.raised \/ ~rr.matched THEN << >>
    ELSE plan_renamed(f, t, dirn, name, rr.new_name)

plan_literal(f, t, dirn, name, find_term, replace_with, case_sensitive) ==
    IF ~name_matches(name, find_term, case_sensitive) THEN << >>
    ELSE plan_renamed(f, t, dirn, name,
                      ci_replace(name, find_term, replace_with, case_sensitive))

plan_split(f, t, parts, find_term, replace_with, case_sensitive, regex) ==
    IF regex
    THEN plan_regex(f, t, parts.head, parts.tail,
                    regex_replace_name(parts.tail, find_term, replace_with, case_sensitive))
    ELSE plan_literal(f, t, parts.head, parts.tail, find_term, replace_with,
                      case_sensitive)

\* the body of plan_changes' loop for one target: the op it appends, if any
plan_one(f, t, find_term, replace_with, case_sensitive, exts, regex) ==
    IF ~eligible(t.path, t.is_dir, exts) THEN << >>
    ELSE plan_split(f, t, Split(t.path), find_term, replace_with, case_sensitive, regex)

plan_over(f, targets, find_term, replace_with, case_sensitive, exts, regex) ==
    Flatten([i \in 1..Len(targets) |->
               plan_one(f, targets[i], find_term, replace_with, case_sensitive, exts,
                        regex)])

plan_changes(f, root, find_term, replace_with, case_sensitive, include_dirs, exts, regex) ==
    plan_over(f, iter_targets(f, root, include_dirs), find_term, replace_with,
              case_sensitive, exts, regex)

\* lines 241-252 for the entry called name
find_hit(name, find_term, case_sensitive, regex) ==
    IF regex
    THEN re_compiles(find_term) /\ re_search(find_term, name, case_sensitive)
    ELSE name_matches(name, find_term, case_sensitive)

\* a search that reports every eligible entry, whatever its name
find_matches_every_name(f, root, find_term, case_sensitive, include_dirs, exts, regex) ==
    SelectSeq(iter_targets(f, root, include_dirs),
              LAMBDA t : eligible(t.path, t.is_dir, exts))

find_matches(f, root, find_term, case_sensitive, include_dirs, exts, regex) ==
    SelectSeq(iter_targets(f, root, include_dirs),
              LAMBDA t : /\ eligible(t.path, t.is_dir, exts)
                         /\ find_hit(Basename(t.path), find_term, case_sensitive, regex))

(***************************************************************************)
(* Filesystem operations.                                                  *)
(***************************************************************************)
\* whether normalised path p is q or lies below q
Under(p, q) == p = q \/ StartsWith(p, IF q = <<SEP>> THEN q ELSE q \o <<SEP>>)

\* the filesystem with regular file n (a normal form) created or truncated
CreateAt(f, n) == [q \in DOMAIN f \cup {n} |-> IF q = n THEN "file" ELSE f[q]]

\* open(path, 'a') / shutil.copy2 creating regular file p
CreateFile(f, p) == CreateAt(f, Norm(p))

CanCreateAt(f, p, n, parent) ==
    /\ p # << >> /\ p[Len(p)] # SEP
    /\ parent \in DOMAIN f /\ f[parent] = "dir"
    /\ ~(n \in DOMAIN f /\ f[n] # "file")

CanCreateAs(f, p, n) == CanCreateAt(f, p, n, Dirname(n))

\* whether a file can be created at p: its directory exists and p is no directory
CanCreate(f, p) == CanCreateAs(f, p, Norm(p))

\* rename(2) of s to d, the normal forms of src and dst, with d in directory
\* parent: the error raised ("none" when it succeeds) and the filesystem left
rename_at(f, src, dst, s, d, parent) ==
    LET moved == {q \in DOMAIN f : Under(q, s)}
        gone == {q \in DOMAIN f : Under(q, d)}
        fail(e) == [error |-> e, fs |-> f]
    IN  IF ~LexistsAs(f, src, s) \/ dst = << >> THEN fail("FileNotFoundError")
        ELSE IF parent \notin DOMAIN f THEN fail("FileNotFoundError")
        ELSE IF f[parent] # "dir" THEN fail("NotADirectoryError")
        ELSE IF s = d THEN [error |-> "none", fs |-> f]
        ELSE IF f[s] = "dir" /\ Under(d, s) THEN fail("OSError")
        ELSE IF f[s] # "dir" /\ dst[Len(dst)] = SEP THEN fail("NotADirectoryError")
        ELSE IF d \in DOMAIN f /\ f[s] # "dir" /\ f[d] = "dir" THEN fail("IsADirectoryError")
        ELSE IF d \in DOMAIN f /\ f[s] = "dir" /\ f[d] # "dir" THEN fail("NotADirectoryError")
        ELSE IF d \in DOMAIN f /\ f[s] = "dir" /\ gone # {d} THEN fail("OSError")
        ELSE [error |-> "none",
              fs |-> [q \in ((DOMAIN f \ moved) \ gone)
                            \cup {d \o Drop(m, Len(s) + 1) : m \in moved} |->
                        IF Under(q, d) THEN f[s \o Drop(q, Len(d) + 1)] ELSE f[q]]]

rename_norm(f, src, dst, s, d) == rename_at(f, src, dst, s, d, Dirname(d))

\* os.rename(src, dst)
os_rename(f, src, dst) == rename_norm(f, src, dst, Norm(src), Norm(dst))

log_file_probe(f, base_dir, path, stem) ==
    IF ~Exists(f, path) THEN path ELSE ProbeFrom(f, base_dir, stem.root, stem.ext, 1)

\* ensure_log_file / ensure_json_log_file: the path of the log file to create
log_file_path(f, base_dir, base_name) ==
    log_file_probe(f, base_dir, Join(base_dir, base_name), Splitext(base_name))

(***************************************************************************)
(* The run of main().                                                      *)
(***************************************************************************)
VARIABLES
    fs,             \* the filesystem
    fs_start,       \* the filesystem when the program started
    cwd,            \* os.getcwd()
    args,           \* the switches of the command line
    location, find_term, replace_term,
    pc,             \* where main() stands
    approve_each,
    log_path, json_log_path,
    changes,        \* the plan
    total_found,
    to_apply,
    idx,            \* the op the approval loop is at
    k,              \* the op the execution loop is at
    renamed, skipped, errors,
    responses,      \* the answers the approval loop accepted, with their op
    reprompts,      \* the answers the prompts rejected
    records,        \* the events handed to the log writers
    summary,        \* the counts the final summary printed
    exit_code,      \* -1 while main() runs
    text,           \* the name ci_replace is applied to
    quiet           \* the same run with no log file, for comparison

vars == << fs, fs_start, cwd, args, location, find_term, replace_term, pc,
           approve_each, log_path, json_log_path, changes, total_found, to_apply,
           idx, k, renamed, skipped, errors, responses, reprompts, records,
           summary, exit_code, text, quiet >>

\* the filesystem around every tree
BaseFs == (<<SEP>> :> "dir") @@ (Root :> "dir") @@ (Outside :> "dir")

\* the tree holding the entries of Universe numbered in S
TreeOf(S) ==
    [p \in DOMAIN BaseFs \cup {Universe[i].path : i \in S} |->
        IF p \in DOMAIN BaseFs THEN BaseFs[p]
        ELSE Universe[CHOOSE i \in S : Universe[i].path = p].kind]

\* the trees of at most n entries drawn from the entries numbered in E: every
\* entry's directory is in the tree
TreesOf(E, n) ==
    {TreeOf(S) : S \in {T \in SUBSET E :
        /\ Cardinality(T) <= n
        /\ \A i \in T : \/ Dirname(Universe[i].path) = Root
                        \/ \E j \in T : /\ Universe[j].kind = "dir"
                                        /\ Universe[j].path = Dirname(Universe[i].path)}}

Switches ==
    [cs : BOOLEAN, include_dirs : BOOLEAN, dry_run : BOOLEAN, backup : BOOLEAN,
     json_log : BOOLEAN, regex : BOOLEAN, find_only : BOOLEAN, v : BOOLEAN,
     exts : {{}, {<<".", "t">>}}]

\* how many of the switches a command line turns on
SwitchesOn(s) ==
    Cardinality({n \in {"cs", "include_dirs", "dry_run", "backup", "json_log",
                        "regex", "find_only", "v"} : s[n]})
    + (IF s.exts = {} THEN 0 ELSE 1)

\* (find term, replacement) pairs
Pair(f, r) == [find |-> f, replace |-> r]

(***************************************************************************)
(* The inputs of the runs of main(): trees over a.t, A.t, b.t, a/ and      *)
(* a/a.t, command lines with at most two switches on (case-insensitive,    *)
(* no extension filter), and five pairs of terms; no log file name holds   *)
(* the find term "b".                                                      *)
(***************************************************************************)
RunTrees == TreesOf({1, 2, 3, 6, 7}, MaxEntries)

RunSwitches == {s \in Switches : ~s.cs /\ s.exts = {} /\ SwitchesOn(s) <= 2}

RunTerms ==
    {Pair(<<"a">>, <<"b">>), Pair(<<"a">>, <<"/">>), Pair(<<"(">>, <<"b">>),
     Pair(<< >>, <<"b">>), Pair(<<"b">>, <<"a">>)}

Cwds == {Root, Outside}

\* main() at position at, with the inputs parsed or prompted for
InitOf(trees, switches, locations, terms, cwds, at, texts) ==
    /\ text \in texts
    /\ fs \in trees
    /\ fs_start = fs
    /\ cwd \in cwds
    /\ args \in switches
    /\ location \in locations
    /\ \E t \in terms : find_term = t.find /\ replace_term = t.replace
    /\ pc = at
    /\ approve_each = FALSE
    /\ log_path = None
    /\ json_log_path = None
    /\ changes = << >>
    /\ total_found = 0
    /\ to_apply = << >>
    /\ idx = 1
    /\ k = 1
    /\ renamed = 0
    /\ skipped = 0
    /\ errors = 0
    /\ responses = << >>
    /\ reprompts = 0
    /\ records = << >>
    /\ summary = << >>
    /\ exit_code = -1
    /\ quiet = [fs |-> fs, changes |-> << >>, events |-> << >>, renamed |-> 0,
                errors |-> 0]

InitWith(trees, switches, locations, terms, cwds, at) ==
    InitOf(trees, switches, locations, terms, cwds, at, {<< >>})

\* a run on an existing root, or of any command line with no or a missing root
Init ==
    \/ InitWith(RunTrees, RunSwitches, {Root}, RunTerms, Cwds, "validate")
    \/ InitWith({TreeOf({})}, {s \in RunSwitches : SwitchesOn(s) = 0},
                {None, <<"/", "x">>}, RunTerms, {Root}, "validate")

\* return code from main()
Exit(code) == pc' = "done" /\ exit_code' = code

\* lines 430-441
Validate ==
    /\ pc = "validate"
    /\ IF location = None \/ find_term = None \/ ~Exists(fs, Norm(location))
       THEN Exit(2) /\ UNCHANGED location
       ELSE /\ pc' = "confirm"
            /\ location' = Norm(location)
            /\ UNCHANGED exit_code
    /\ UNCHANGED << quiet, text,
                    fs, fs_start, cwd, args, find_term, replace_term, approve_each,
                    log_path, json_log_path, changes, total_found, to_apply, idx, k,
                    renamed, skipped, errors, responses, reprompts, records, summary >>

\* lines 444-455: --find-only asks for no confirmation
ConfirmFindOnly ==
    /\ pc = "confirm"
    /\ args.find_only
    /\ pc' = "logging"
    /\ approve_each' = FALSE
    /\ UNCHANGED << quiet, text,
                    fs, fs_start, cwd, args, location, find_term, replace_term,
                    log_path, json_log_path, changes, total_found, to_apply, idx, k,
                    renamed, skipped, errors, responses, reprompts, records, summary,
                    exit_code >>

\* lines 137-141: confirm_plan asks again after any other answer
ConfirmReprompt ==
    /\ pc = "confirm"
    /\ ~args.find_only
    /\ reprompts < MaxReprompts
    /\ reprompts' = reprompts + 1
    /\ UNCHANGED << quiet, text,
                    fs, fs_start, cwd, args, location, find_term, replace_term, pc,
                    approve_each, log_path, json_log_path, changes, total_found,
                    to_apply, idx, k, renamed, skipped, errors, responses, records,
                    summary, exit_code >>

\* lines 457-461: the answers y, n and a
Confirm ==
    /\ pc = "confirm"
    /\ ~args.find_only
    /\ \E ans \in {"y", "n", "a"} :
          IF ans = "n"
          THEN Exit(0) /\ UNCHANGED approve_each
          ELSE /\ pc' = "logging"
               /\ approve_each' = (ans = "a")
               /\ UNCHANGED exit_code
    /\ reprompts' = 0
    /\ UNCHANGED << quiet, text,
                    fs, fs_start, cwd, args, location, find_term, replace_term,
                    log_path, json_log_path, changes, total_found, to_apply, idx, k,
                    renamed, skipped, errors, responses, records, summary >>

\* lines 462-474 with gather_inputs_interactive (144-160): the answer c asks
\* for the three inputs again (the location prompt is answered with its
\* default), then for a confirmation of its own
ConfirmChange ==
    /\ pc = "confirm"
    /\ ~args.find_only
    /\ approve_each' = FALSE
    /\ reprompts' = 0
    /\ \E t \in RunTerms, ans \in {"y", "n", "a"} :
          IF ans = "n"
          THEN Exit(0) /\ UNCHANGED << find_term, replace_term >>
          ELSE /\ pc' = "logging"
               /\ find_term' = t.find
               /\ replace_term' = t.replace
               /\ UNCHANGED exit_code
    /\ UNCHANGED << quiet, text,
                    fs, fs_start, cwd, args, location, log_path, json_log_path,
                    changes, total_found, to_apply, idx, k, renamed, skipped, errors,
                    responses, records, summary >>

\* ensure_log_file's open(path, 'a'): the path, or None when it fails
open_log(f, path, opens) == IF opens /\ CanCreate(f, path) THEN path ELSE None

created_log(f, path) == IF path = None THEN f ELSE CreateFile(f, path)

\* lines 476-488: the log files are created in the working directory; open()
\* may fail (opens says whether the environment lets it succeed)
PrepareLogging ==
    /\ pc = "logging"
    /\ \E text_opens \in IF args.v THEN BOOLEAN ELSE {FALSE},
          json_opens \in IF args.json_log THEN BOOLEAN ELSE {FALSE} :
          /\ log_path' = open_log(fs, log_file_path(fs, cwd, TextLogName), text_opens)
          /\ json_log_path' =
                 open_log(created_log(fs, log_path'),
                          log_file_path(created_log(fs, log_path'), cwd, JsonLogName),
                          json_opens)
          /\ fs' = created_log(created_log(fs, log_path'), json_log_path')
    /\ pc' = "scan"
    /\ UNCHANGED << quiet, text,
                    fs_start, cwd, args, location, find_term, replace_term,
                    approve_each, changes, total_found, to_apply, idx, k, renamed,
                    skipped, errors, responses, reprompts, records, summary,
                    exit_code >>

\* lines 493-498
CompileError ==
    /\ pc = "scan"
    /\ args.regex /\ ~re_compiles(find_term)
    /\ Exit(2)
    /\ UNCHANGED << quiet, text,
                    fs, fs_start, cwd, args, location, find_term, replace_term,
                    approve_each, log_path, json_log_path, changes, total_found,
                    to_apply, idx, k, renamed, skipped, errors, responses,
                    reprompts, records, summary >>

\* the outcomes of an attempt to write to the log file at path: none is made
\* without a log file, and one made may fail (lines 374-378, 285-289)
WriteOutcomes(path) == IF path = None THEN {TRUE} ELSE BOOLEAN

\* open(log_path, 'a') and the write, which succeed when ok: the file is
\* there afterwards, created when it was missing
write_log(f, path, ok) ==
    IF path = None \/ ~ok \/ ~CanCreate(f, path) THEN f ELSE CreateFile(f, path)

Event(action, src, dst, is_dir, status, error) ==
    [action |-> action, src |-> src, dst |-> dst, is_dir |-> is_dir,
     status |-> status, error |-> error]

SummaryOf(found, n_renamed, n_skipped, n_errors) ==
    [total_found |-> found, renamed |-> n_renamed, skipped |-> n_skipped,
     errors |-> n_errors]

\* the events and the summary of a find-only run
Found(matches) ==
    /\ total_found' = Len(matches)
    /\ records' = records
           \o [i \in 1..Len(matches) |->
                 Event("find", matches[i].path, None, matches[i].is_dir, "ok", "")]
           \o <<Event("summary", None, None, FALSE, "ok", "")>>
    /\ summary' = <<SummaryOf(Len(matches), 0, 0, 0)>>

\* lines 499-545: a line per match goes to each log file, and the summary
\* to the structured one
FindOnly ==
    /\ pc = "scan"
    /\ ~(args.regex /\ ~re_compiles(find_term))
    /\ args.find_only
    /\ Found(find_matches(fs, location, find_term, args.cs, args.include_dirs,
                          args.exts, args.regex))
    /\ renamed' = 0 /\ skipped' = 0 /\ errors' = 0
    /\ \E text_ok \in WriteOutcomes(IF total_found' = 0 THEN None ELSE log_path),
          json_ok \in WriteOutcomes(json_log_path) :
          /\ fs' = write_log(write_log(fs, log_path, text_ok), json_log_path, json_ok)
    /\ Exit(0)
    /\ UNCHANGED << quiet, text,
                    fs_start, cwd, args, location, find_term, replace_term,
                    approve_each, log_path, json_log_path, changes, to_apply, idx, k,
                    responses, reprompts >>

\* lines 546-557, 576-583
Plan ==
    /\ pc = "scan"
    /\ ~(args.regex /\ ~re_compiles(find_term))
    /\ ~args.find_only
    /\ changes' = plan_changes(fs, location, find_term, replace_term, args.cs,
                               args.include_dirs, args.exts, args.regex)
    /\ total_found' = Len(changes')
    /\ quiet' = [quiet EXCEPT !.changes =
                     plan_changes(quiet.fs, location, find_term, replace_term,
                                  args.cs, args.include_dirs, args.exts, args.regex)]
    /\ IF Len(changes') = 0
       THEN Exit(0) /\ UNCHANGED to_apply
       ELSE /\ pc' = IF approve_each THEN "approve" ELSE "execute"
            /\ to_apply' = IF approve_each THEN << >> ELSE changes'
            /\ UNCHANGED exit_code
    /\ UNCHANGED << text,
                    fs, fs_start, cwd, args, location, find_term, replace_term,
                    approve_each, log_path, json_log_path, idx, k, renamed, skipped,
                    errors, responses, reprompts, records, summary >>

\* lines 564-572: an answer that stands for no as for yes
approved_unless_quit(applying, op, resp) ==
    IF resp \in {"y", "n"} THEN Append(applying, op) ELSE applying

\* lines 564-572: to_apply after answer resp for op
approved(applying, op, resp) == IF resp = "y" THEN Append(applying, op) ELSE applying

\* lines 558-575: one accepted answer to "Rename this item? [y/n/q]"; each of
\* the three leaves the inner while loop, and the for loop goes on to the
\* next op
Approve ==
    /\ pc = "approve"
    /\ idx <= Len(changes)
    /\ \E resp \in {"y", "n", "q"} :
          /\ responses' = Append(responses, [op |-> idx, resp |-> resp])
          /\ to_apply' = approved(to_apply, changes[idx], resp)
    /\ idx' = idx + 1
    /\ pc' = IF idx + 1 > Len(changes) THEN "execute" ELSE "approve"
    /\ reprompts' = 0
    /\ UNCHANGED << quiet, text,
                    fs, fs_start, cwd, args, location, find_term, replace_term,
                    approve_each, log_path, json_log_path, changes, total_found, k,
                    renamed, skipped, errors, records, summary, exit_code >>

\* lines 573-574: any other answer is asked again
ApproveReprompt ==
    /\ pc = "approve"
    /\ idx <= Len(changes)
    /\ reprompts < MaxReprompts
    /\ reprompts' = reprompts + 1
    /\ UNCHANGED << quiet, text,
                    fs, fs_start, cwd, args, location, find_term, replace_term, pc,
                    approve_each, log_path, json_log_path, changes, total_found,
                    to_apply, idx, k, renamed, skipped, errors, responses, records,
                    summary, exit_code >>

\* the errors the environment can make shutil.copy2 and os.rename raise on top
\* of those the filesystem state decides
EnvErrors == {"none", "PermissionError", "OSError"}

\* shutil.copy2(src, bk_path): the error it raises, "none" when it succeeds
copy_error(f, src, bk_path, copy_env) ==
    IF ~Exists(f, src) THEN "FileNotFoundError"
    ELSE IF IsDir(f, src) THEN "IsADirectoryError"
    ELSE IF ~CanCreate(f, bk_path) THEN "OSError"
    ELSE copy_env

\* lines 661-731: the rename, its log events and its counters; rn is what
\* os.rename does in f1, the filesystem after the backup, if any
exec_rename(f1, op, backed, rn, rename_env) ==
    IF rn.error = "none" /\ rename_env = "none"
    THEN [fs |-> rn.fs,
          events |-> backed \o <<Event("rename", op.src, op.dst, op.is_dir, "ok", "")>>,
          renamed |-> 1, errors |-> 0]
    ELSE [fs |-> f1,
          events |-> backed \o <<Event("rename", op.src, op.dst, op.is_dir, "failed",
                                       IF rn.error = "none" THEN rename_env ELSE rn.error)>>,
          renamed |-> 0, errors |-> 1]

\* a backup whose failure is logged and counted, and the rename tried anyway
exec_backup_fail_open(f, f1, op, bk_path, copied, rename_env) ==
    IF copied # "none"
    THEN exec_rename(f, op,
                     <<Event("backup", op.src, bk_path, op.is_dir, "failed", copied)>>,
                     os_rename(f, op.src, op.dst), rename_env)
    ELSE exec_rename(f1, op, <<Event("backup", op.src, bk_path, op.is_dir, "ok", "")>>,
                     os_rename(f1, op.src, op.dst), rename_env)

\* a backup whose failure is logged but not counted
exec_backup_uncounted(f, f1, op, bk_path, copied, rename_env) ==
    IF copied # "none"
    THEN [fs |-> f,
          events |-> <<Event("backup", op.src, bk_path, op.is_dir, "failed", copied)>>,
          renamed |-> 0, errors |-> 0]
    ELSE exec_rename(f1, op, <<Event("backup", op.src, bk_path, op.is_dir, "ok", "")>>,
                     os_rename(f1, op.src, op.dst), rename_env)

\* lines 621-660: the backup, at bk_path, of a regular file
exec_backup(f, f1, op, bk_path, copied, rename_env) ==
    IF copied # "none"
    THEN [fs |-> f,
          events |-> <<Event("backup", op.src, bk_path, op.is_dir, "failed", copied)>>,
          renamed |-> 0, errors |-> 1]
    ELSE exec_rename(f1, op, <<Event("backup", op.src, bk_path, op.is_dir, "ok", "")>>,
                     os_rename(f1, op.src, op.dst), rename_env)

\* lines 586-620
exec_dry_run(f, op, do_backup, bk_path) ==
    [fs |-> f,
     events |-> (IF do_backup
                 THEN <<Event("dry_run_backup", op.src, bk_path, op.is_dir, "ok", "")>>
                 ELSE << >>)
                \o <<Event("dry_run_rename", op.src, op.dst, op.is_dir, "ok", "")>>,
     renamed |-> 1, errors |-> 0]

\* a dry run that logs the preview and renames all the same
exec_at_renaming(f, op, dry_run, do_backup, bk_path, copy_env, rename_env) ==
    IF dry_run
    THEN [fs |-> os_rename(f, op.src, op.dst).fs,
          events |-> exec_dry_run(f, op, do_backup, bk_path).events,
          renamed |-> 1, errors |-> 0]
    ELSE IF do_backup
    THEN exec_backup(f, CreateFile(f, bk_path), op, bk_path,
                     copy_error(f, op.src, bk_path, copy_env), rename_env)
    ELSE exec_rename(f, op, << >>, os_rename(f, op.src, op.dst), rename_env)

exec_at(f, op, dry_run, do_backup, bk_path, copy_env, rename_env) ==
    IF dry_run THEN exec_dry_run(f, op, do_backup, bk_path)
    ELSE IF do_backup
    THEN exec_backup(f, CreateFile(f, bk_path), op, bk_path,
                     copy_error(f, op.src, bk_path, copy_env), rename_env)
    ELSE exec_rename(f, op, << >>, os_rename(f, op.src, op.dst), rename_env)

\* lines 585-731, the body of the execution loop for one op: the filesystem it
\* leaves, the events it logs and what it adds to the counters
exec_item(f, op, dry_run, backup, copy_env, rename_env) ==
    exec_at(f, op, dry_run, backup /\ ~op.is_dir, backup_nonconflicting_path(f, op.src),
            copy_env, rename_env)

\* a log writer whose failure counts as an error of the op
after_writes_unswallowed(out, text_path, text_ok, json_path, json_ok) ==
    [out EXCEPT !.fs = write_log(write_log(out.fs, text_path, text_ok), json_path, json_ok),
                !.errors = IF text_ok /\ json_ok THEN out.errors ELSE out.errors + 1]

\* write_log_line and write_json_log (lines 371-378, 282-289) for the events
\* of one op: what the op did, with the log files written to
after_writes(out, text_path, text_ok, json_path, json_ok) ==
    [out EXCEPT !.fs = write_log(write_log(out.fs, text_path, text_ok), json_path, json_ok)]

\* the run without log files after one op
quiet_after(q, out) ==
    [q EXCEPT !.fs = out.fs, !.events = q.events \o out.events,
              !.renamed = q.renamed + out.renamed, !.errors = q.errors + out.errors]

\* an execution loop that a failed op ends
ExecutedUnlessFailed(out) ==
    /\ fs' = out.fs
    /\ records' = records \o out.events
    /\ renamed' = renamed + out.renamed
    /\ errors' = errors + out.errors
    /\ k' = IF out.errors > 0 THEN Len(to_apply) + 1 ELSE k + 1

\* the filesystem, the log, the counters and the loop after one op
Executed(out) ==
    /\ fs' = out.fs
    /\ records' = records \o out.events
    /\ renamed' = renamed + out.renamed
    /\ errors' = errors + out.errors
    /\ k' = k + 1

\* one op done (out) and its events written to the log files, beside the
\* same op done in the run without log files (quiet_out)
ExecutedLogged(out, quiet_out) ==
    /\ \E text_ok \in WriteOutcomes(log_path), json_ok \in WriteOutcomes(json_log_path) :
          Executed(after_writes(out, log_path, text_ok, json_log_path, json_ok))
    /\ quiet' = quiet_after(quiet, quiet_out)

\* lines 584-731: one turn of the execution loop
Execute ==
    /\ pc = "execute"
    /\ k <= Len(to_apply)
    /\ \E copy_env \in IF args.backup /\ ~args.dry_run THEN EnvErrors ELSE {"none"},
          rename_env \in IF args.dry_run THEN {"none"} ELSE EnvErrors :
          ExecutedLogged(exec_item(fs, to_apply[k], args.dry_run, args.backup,
                                   copy_env, rename_env),
                         exec_item(quiet.fs, to_apply[k], args.dry_run, args.backup,
                                   copy_env, rename_env))
    /\ UNCHANGED << text,
                    fs_start, cwd, args, location, find_term, replace_term, pc,
                    approve_each, log_path, json_log_path, changes, total_found,
                    to_apply, idx, skipped, responses, reprompts, summary, exit_code >>

\* lines 733-765
Summary ==
    /\ pc = "execute"
    /\ k > Len(to_apply)
    /\ skipped' = IF approve_each THEN total_found - renamed - errors ELSE skipped
    /\ summary' = <<SummaryOf(total_found, renamed, skipped', errors)>>
    /\ records' = IF args.json_log /\ json_log_path # None
                  THEN Append(records, Event("summary", None, None, FALSE, "ok", ""))
                  ELSE records
    /\ \E json_ok \in WriteOutcomes(json_log_path) :
          fs' = write_log(fs, json_log_path, json_ok)
    /\ Exit(0)
    /\ UNCHANGED << quiet, text,
                    fs_start, cwd, args, location, find_term, replace_term,
                    approve_each, log_path, json_log_path, changes, total_found,
                    to_apply, idx, k, renamed, errors, responses, reprompts >>

Next ==
    \/ Validate
    \/ ConfirmFindOnly
    \/ ConfirmReprompt
    \/ Confirm
    \/ ConfirmChange
    \/ PrepareLogging
    \/ CompileError
    \/ FindOnly
    \/ Plan
    \/ Approve
    \/ ApproveReprompt
    \/ Execute
    \/ Summary

Spec == Init /\ [][Next]_vars

(***************************************************************************)
(* The scan alone: main() at "Scanning..." (line 491) with no log file,    *)
(* over every tree of at most MaxScanEntries entries, the switches that    *)
(* the scan reads, and thirteen pairs of terms.  An empty find term reaches *)
(* the scan through the answer c (ConfirmChange).                          *)
(***************************************************************************)
ScanTrees == TreesOf(1..Len(Universe), MaxScanEntries)

ScanSwitches == {s \in Switches : ~s.dry_run /\ ~s.backup /\ ~s.json_log /\ ~s.v}

ScanTerms ==
    {Pair(f, r) : f \in {<< >>, <<"a">>, <<"(">>, <<".">>},
                  r \in {<< >>, <<"b">>, <<"/">>}}
    \cup {Pair(<<"(", "1", ")">>, << >>)}

ScanInit == InitWith(ScanTrees, ScanSwitches, {Root}, ScanTerms, {Outside}, "scan")

ScanNext ==
    \/ CompileError
    \/ FindOnly
    \/ Plan

ScanSpec == ScanInit /\ [][ScanNext]_vars

(***************************************************************************)
(* ci_replace alone: applied to a name, then to its own output, for every  *)
(* name, find term and replacement over three letters within the bounds,   *)
(* case-sensitive or not.                                                  *)
(***************************************************************************)
Letters == {"a", "b", "A"}

SeqsUpTo(S, n) == UNION {[1..m -> S] : m \in 0..n}

ReplaceTerms ==
    {Pair(f, r) : f \in SeqsUpTo(Letters, MaxFindLen), r \in SeqsUpTo(Letters, MaxReplLen)}

ReplaceSwitches ==
    {s \in Switches : s.exts = {} /\ SwitchesOn(s) = (IF s.cs THEN 1 ELSE 0)}

ReplaceInit ==
    InitOf({TreeOf({})}, ReplaceSwitches, {Root}, ReplaceTerms, {Outside}, "replace",
           SeqsUpTo(Letters, MaxTextLen))

\* new_name = ci_replace(name, find_term, replace_with, case_sensitive), line
\* 355, on the name and then on the new name
Replace ==
    /\ pc \in {"replace", "replaced"}
    /\ text' = ci_replace(text, find_term, replace_term, args.cs)
    /\ pc' = IF pc = "replace" THEN "replaced" ELSE "replaced again"
    /\ UNCHANGED << quiet, fs, fs_start, cwd, args, location, find_term,
                    replace_term, approve_each, log_path, json_log_path, changes,
                    total_found, to_apply, idx, k, renamed, skipped, errors,
                    responses, reprompts, records, summary, exit_code >>

ReplaceSpec == ReplaceInit /\ [][Replace]_vars

(***************************************************************************)
(* Properties.                                                             *)
(***************************************************************************)
\* the plan has been computed
Planned == pc \in {"approve", "execute"} \/ (pc = "done" /\ changes # << >>)

\* C2: every op of the plan keeps its entry in its directory: the parent
\* directory of the destination is the parent directory of the source.
PlanKeepsDirectory ==
    \A i \in 1..Len(changes) :
        Dirname(Norm(changes[i].dst)) = Dirname(Norm(changes[i].src))

\* the paths the Collision Resolver is asked about
DesiredPaths ==
    {Universe[i].path : i \in {3, 4, 6, 8}}
    \cup {Root \o <<"/", "c", ".", "t">>, Root \o <<"/", "a", "/">>}

\* stem(i)extension in directory dirn
Candidate(dirn, stem, i) ==
    Join(dirn, stem.root \o <<"(">> \o IntToStr(i) \o <<")">> \o stem.ext)

\* res is the first free path for dst, which exists, in filesystem f
FirstFreeBeside(f, res, dirn, stem) ==
    \E i \in 1..(Cardinality(DOMAIN f) + 1) :
        /\ res = Candidate(dirn, stem, i)
        /\ \A j \in 1..(i - 1) : Exists(f, Candidate(dirn, stem, j))

\* res is what the Collision Resolver owes for desired path dst
FirstFree(f, dst, res) ==
    /\ ~Exists(f, res)
    /\ IF Exists(f, dst)
       THEN FirstFreeBeside(f, res, Dirname(dst), Splitext(Basename(dst)))
       ELSE res = dst

\* C3: in the filesystem the scan sees, next_nonconflicting_path returns a
\* path that does not exist: the desired path when it is free, otherwise
\* stem(i)extension for the smallest i >= 1 for which that path does not exist.
ResolverReturnsFirstFree ==
    pc = "scan" =>
    \A dst \in DesiredPaths : FirstFree(fs, dst, next_nonconflicting_path(fs, dst))

\* a plan whose destination had to skip stem(1)extension
ResolverProbedTwice ==
    /\ Planned
    /\ \E i \in 1..Len(changes) :
          /\ changes[i].dst = Root \o <<"/", "b", "(", "2", ")", ".", "t">>
          /\ Exists(fs, Root \o <<"/", "b", ".", "t">>)
          /\ Exists(fs, Root \o <<"/", "b", "(", "1", ")", ".", "t">>)

\* C6: with an empty find term nothing matches: the plan is empty and the
\* find-only run finds nothing.
EmptyFindTermMatchesNothing ==
    (find_term = << >> /\ pc = "done") =>
        /\ changes = << >>
        /\ total_found = 0
        /\ \A i \in 1..Len(records) : records[i].action # "find"

(***************************************************************************)
(* Properties of the runs.                                                 *)
(***************************************************************************)
\* how many elements of seq satisfy Test
Count(seq, Test(_)) == Cardinality({i \in 1..Len(seq) : Test(seq[i])})

Answered(resp) == Count(responses, LAMBDA r : r.resp = resp)

IsRenamed(e) == (e.action = "rename" /\ e.status = "ok") \/ e.action = "dry_run_rename"

IsFailed(e) == e.status = "failed"

IsBackupFailure(e) == e.action = "backup" /\ e.status = "failed"

\* the events of the ops, each op's last: its rename, or its failed backup
Outcomes == SelectSeq(records, LAMBDA e : e.action \in {"rename", "dry_run_rename"}
                                          \/ IsBackupFailure(e))

\* the ops answered with yes, in the order of their answers
ApprovedOps ==
    LET yes == SelectSeq(responses, LAMBDA r : r.resp = "y")
    IN  [i \in 1..Len(yes) |-> changes[yes[i].op]]

\* C1: once an op is answered with quit no further prompt is shown: the quit
\* is the last answer and the approval loop is over.
QuitEndsApproval ==
    \A i \in 1..Len(responses) :
        responses[i].resp = "q" => (i = Len(responses) /\ pc # "approve")

\* the step logs a failed backup
BackupFails ==
    \E i \in (Len(records) + 1)..Len(records') : IsBackupFailure(records'[i])

\* C4: a step whose backup copy fails leaves the filesystem as it is but
\* for the log files its failure is written to (the rename is not
\* attempted), adds one to errors and nothing to renamed, logs that failure
\* only, and leaves the loop at the next op.
BackupFailureSkipsRename ==
    [][BackupFails =>
          /\ \E text_ok, json_ok \in BOOLEAN :
                fs' = write_log(write_log(fs, log_path, text_ok), json_log_path, json_ok)
          /\ errors' = errors + 1
          /\ renamed' = renamed
          /\ Len(records') = Len(records) + 1
          /\ pc' = "execute" /\ k' = k + 1]_vars

\* a failed backup of an existing file, followed by the next op's rename
BackupFailedThenNextRan ==
    \E i \in 1..Len(records) :
        /\ IsBackupFailure(records[i])
        /\ Exists(fs, records[i].src)
        /\ \E j \in (i + 1)..Len(records) :
               records[j].src # records[i].src /\ IsRenamed(records[j])

\* C5: a run whose find term is no regular expression ends with exit code 2
\* and the filesystem it started with.
InvalidRegexBeforeMutation ==
    (pc = "done" /\ args.regex /\ ~re_compiles(find_term) /\ exit_code # 0) =>
        (exit_code = 2 /\ fs = fs_start)

\* C7: the summary of a rename run counts the plan, the ops renamed (or
\* previewed), the ops failed, and as skipped the rest under approve-each and
\* none otherwise; the three add up to found.
SummaryCounts ==
    (summary # << >> /\ ~args.find_only) =>
        /\ summary[1].total_found = Len(changes)
        /\ summary[1].renamed = Count(records, IsRenamed)
        /\ summary[1].errors = Count(records, IsFailed)
        /\ summary[1].skipped =
              IF approve_each
              THEN summary[1].total_found - summary[1].renamed - summary[1].errors
              ELSE 0
        /\ summary[1].total_found
              = summary[1].renamed + summary[1].skipped + summary[1].errors

\* a summary with an op renamed, an op failed and an op skipped
SummaryOfEachKind ==
    /\ summary # << >> /\ ~args.find_only
    /\ summary[1].renamed > 0 /\ summary[1].errors > 0 /\ summary[1].skipped > 0

\* C8: under approve-each the ops to apply are the approved ones in plan
\* order, every op event is of an approved op, in that order, and the summary
\* of a dry run answered with yes and no only counts the yes as renamed, the
\* no as skipped and no error.
OnlyApprovedExecuted ==
    approve_each =>
        /\ to_apply = ApprovedOps
        /\ Len(Outcomes) <= Len(to_apply)
        /\ \A i \in 1..Len(Outcomes) :
              /\ Outcomes[i].src = to_apply[i].src
              /\ IsRenamed(Outcomes[i]) => Outcomes[i].dst = to_apply[i].dst
        /\ \A i \in 1..Len(records) :
              records[i].action \in {"backup", "dry_run_backup"} =>
                  \E j \in 1..Len(to_apply) : to_apply[j].src = records[i].src
        /\ (summary # << >> /\ args.dry_run /\ Answered("q") = 0) =>
              /\ summary[1].renamed = Answered("y")
              /\ summary[1].skipped = Answered("n")
              /\ summary[1].errors = 0

\* the dry run of three ops answered yes, no, no
ApprovedOneOfThree ==
    /\ approve_each /\ args.dry_run /\ summary # << >>
    /\ [i \in 1..Len(responses) |-> responses[i].resp] = <<"y", "n", "n">>
    /\ summary[1].renamed = 1 /\ summary[1].skipped = 2 /\ summary[1].errors = 0

\* the paths of filesystem f at or below the root
BelowRoot(f) == {p \in DOMAIN f : Under(p, Root)}

\* C9 as stated: in a dry run the paths below the root stay the ones the run
\* started with.
DryRunKeepsRootPaths == args.dry_run => BelowRoot(fs) = BelowRoot(fs_start)

\* C9: a dry run renames nothing and copies nothing: the filesystem is the one
\* it started with plus the log files it created, every op to apply is logged
\* once as a dry-run rename, in order, and counted once in renamed.
DryRunOnlyCreatesLogs ==
    args.dry_run =>
        /\ fs = created_log(created_log(fs_start, log_path), json_log_path)
        /\ \A i \in 1..Len(records) : records[i].action \notin {"rename", "backup"}
        /\ pc = "execute" => renamed = k - 1
        /\ renamed = Len(Outcomes)
        /\ \A i \in 1..Len(Outcomes) :
              /\ Outcomes[i].action = "dry_run_rename"
              /\ Outcomes[i].src = to_apply[i].src /\ Outcomes[i].dst = to_apply[i].dst
        /\ (summary # << >> /\ ~args.find_only) => summary[1].renamed = Len(to_apply)

\* a finished dry run of two ops or more with its log below the root
DryRunLoggedBelowRoot ==
    /\ args.dry_run /\ summary # << >>
    /\ json_log_path # None /\ Under(json_log_path, Root)
    /\ summary[1].renamed >= 2
    /\ fs # fs_start

\* C10: a step that fails an op adds one to errors and leaves the loop at the
\* next op, and the loop ends only when every op to apply has been renamed or
\* has failed.
FailureIsLocal ==
    [][/\ errors' # errors =>
             (errors' = errors + 1 /\ pc' = "execute" /\ k' = k + 1)
       /\ (pc = "execute" /\ pc' = "done") =>
             (k > Len(to_apply) /\ renamed + errors = Len(to_apply))]_vars

\* an op that failed and a later op that was renamed
FailedThenRenamed ==
    \E i \in 1..Len(records) :
        /\ IsFailed(records[i])
        /\ \E j \in (i + 1)..Len(records) :
              records[j].action = "rename" /\ records[j].status = "ok"


\* C11: every run that gets past its confirmation and does not end in a
\* configuration error (exit code 2) ends with the final summary printed,
\* whatever the number of planned ops.
RunEndsWithSummary ==
    [][(pc # "confirm" /\ pc' = "done" /\ exit_code' # 2) => summary' # << >>]_vars


\* the entries below the root when the program started
Entries == {p \in DOMAIN fs_start : p # location /\ Under(p, location)}

\* the rule of eligibility for entry p
EligibleRule(p) ==
    IF fs_start[p] = "dir" THEN args.include_dirs
    ELSE args.exts = {} \/ Lower(Splitext(p).ext) \in args.exts

\* the entries the scan matched: the sources of the plan and of the find events
Matched ==
    {changes[i].src : i \in 1..Len(changes)}
    \cup {records[i].src : i \in {j \in 1..Len(records) : records[j].action = "find"}}

\* C12: the scan matches eligible entries only: directories when directory
\* inclusion is on, whatever their extension, and files when the extension
\* set is empty or holds their lower-cased extension; and a pattern that
\* every name matches (the regular expression ".") matches every eligible
\* entry.
OnlyEligibleMatched ==
    /\ Matched \subseteq {p \in Entries : EligibleRule(p)}
    /\ (pc # "scan" /\ args.regex /\ find_term = <<".">> /\ replace_term = <<"b">>) =>
           Matched = {p \in Entries : EligibleRule(p)}

\* a scan under an extension filter that matched a directory and a file with
\* an upper-case extension, and left out a file with another extension
FilteredScanMatchedDirectory ==
    /\ pc # "scan" /\ args.exts # {} /\ args.include_dirs
    /\ \E p \in Matched : fs_start[p] = "dir"
    /\ \E p \in Matched : fs_start[p] # "dir" /\ Splitext(p).ext # Lower(Splitext(p).ext)
    /\ \E p \in Entries \ Matched : fs_start[p] # "dir"


\* a find-only run that has ended
FoundOnly == pc = "done" /\ args.find_only /\ exit_code = 0

\* the eligible entries of filesystem f below the root whose base name
\* matches the find term
MatchingEntries(f) ==
    {p \in DOMAIN f :
        /\ p # location /\ Under(p, location)
        /\ IF f[p] = "dir" THEN args.include_dirs
           ELSE args.exts = {} \/ Lower(Splitext(p).ext) \in args.exts
        /\ find_hit(Basename(p), find_term, args.cs, args.regex)}

\* C13 as stated: a find-only run leaves the set of paths below the root as
\* it was and reports as found the matching entries among them.
FindOnlyKeepsRootPaths ==
    FoundOnly =>
        /\ BelowRoot(fs) = BelowRoot(fs_start)
        /\ summary = <<SummaryOf(Cardinality(MatchingEntries(fs_start)), 0, 0, 0)>>

\* C13: a find-only run renames nothing, backs up nothing and computes no
\* destination: the filesystem is the one it started with plus the log
\* files it created, the plan stays empty, every event is a find or the
\* summary, and the summary reports as found the eligible entries whose base
\* name matches the find term (among them a log file of the run itself that
\* lies below the root), with renamed, skipped and errors 0.
FindOnlyOnlyCreatesLogs ==
    FoundOnly =>
        /\ fs = created_log(created_log(fs_start, log_path), json_log_path)
        /\ changes = << >> /\ to_apply = << >>
        /\ \A i \in 1..Len(records) : records[i].action \in {"find", "summary"}
        /\ \A i \in 1..Len(records) : records[i].dst = None
        /\ summary = <<SummaryOf(Cardinality(MatchingEntries(fs)), 0, 0, 0)>>
        /\ total_found = Cardinality(MatchingEntries(fs))
        /\ renamed = 0 /\ skipped = 0 /\ errors = 0

\* a find-only run with its log below the root that found two entries or
\* more and left another unmatched
FoundBesideItsLog ==
    /\ FoundOnly
    /\ json_log_path # None /\ Under(json_log_path, Root)
    /\ total_found >= 2
    /\ \E p \in BelowRoot(fs_start) \ {Root} : p \notin MatchingEntries(fs)


\* C14: no op of the plan renames an entry to itself: after collision
\* resolution the destination differs from the source.
NoOpNeverProposed ==
    \A i \in 1..Len(changes) : changes[i].dst # changes[i].src


\* C15: when the replacement does not hold the find term, ci_replace applied
\* to its own output returns that output.
ReplaceIsIdempotent ==
    [][(pc = "replaced" /\ ~Search(find_term, replace_term, ~args.cs, FALSE)) =>
           text' = text]_vars


\* the events of the ops
ExecEvents == SelectSeq(records, LAMBDA e : e.action \notin {"find", "summary"})

\* filesystems f and g hold the same entries but for the log files of the run
SameButLogs(f, g) ==
    \A p \in (DOMAIN f \cup DOMAIN g) \ {Norm(log_path), Norm(json_log_path)} :
        p \in DOMAIN f /\ p \in DOMAIN g /\ f[p] = g[p]

\* C16: a rename run whose log files are created or not, and written to or
\* not, does what the run with no log file does when the two have the same
\* plan: the same events of backups and renames, the same filesystem but for
\* the log files, the same counters, summary and exit code.
LoggingNeverAffectsOutcome ==
    (~args.find_only /\ quiet.changes = changes) =>
        /\ ExecEvents = quiet.events
        /\ SameButLogs(fs, quiet.fs)
        /\ renamed = quiet.renamed /\ errors = quiet.errors
        /\ summary # << >> =>
              /\ summary[1] = SummaryOf(Len(quiet.changes), quiet.renamed, skipped,
                                        quiet.errors)
              /\ skipped = (IF approve_each
                            THEN Len(quiet.changes) - quiet.renamed - quiet.errors
                            ELSE 0)
              /\ exit_code = 0

\* a finished run that renamed an entry beside its text log file, and whose
\* structured log file could not be created
RenamedBesideLogWithoutLog ==
    /\ pc = "done" /\ summary # << >>
    /\ args.v /\ args.json_log
    /\ log_path # None /\ Under(log_path, Root) /\ json_log_path = None
    /\ quiet.changes = changes
    /\ renamed >= 1


\* C17: no two ops of the plan have the same destination.
PlanDestinationsDistinct ==
    \A i, j \in 1..Len(changes) : i # j => changes[i].dst # changes[j].dst


\* C18: in a run that is no dry run and makes no backups, the source of the
\* op the execution loop is about to rename is still there, whatever ops ran
\* before it.
SourcesStillExist ==
    (pc = "execute" /\ ~args.dry_run /\ ~args.backup /\ k <= Len(to_apply)) =>
        Norm(to_apply[k].src) \in DOMAIN fs

=============================================================================
